---- MODULE Spec2Model ----
(***************************************************************************)
(* ABTastyProvider (src/unnamed/part_002): the OpenFeature provider that   *)
(* keeps one Flagship visitor (this._visitor) consistent with the          *)
(* evaluation context, and resolves flags from it; and the AdapterLogger   *)
(* (src/src/AdapterLogger.ts) through which the SDK logs.                  *)
(*                                                                         *)
(* JavaScript runs each handler to its next await without interruption,    *)
(* so one action is one synchronous block of a handler.  The completion of *)
(* an awaited backend promise and the continuation that follows it run in  *)
(* the same microtask checkpoint and are one action.                       *)
(*                                                                         *)
(* The Flagship SDK is not part of the repository.  Its operations are     *)
(* modelled from the contract of spec section 6 and from the test double   *)
(* of src/unnamed/part_000; where the contract leaves a result open (the   *)
(* outcome of a fetch, the status while a fetch is in flight, the id of an *)
(* anonymous visitor) every allowed outcome is a step of the model.        *)
(***************************************************************************)
EXTENDS Naturals, Sequences, FiniteSets, Bags

\* ------------------------------------------------------------------ bounds

\* Number of reconciliation calls (initialize, onContextChange) that can be
\* in flight at the same time.
MaxCalls == 2

\* Number of calls of Flagship.start a behaviour can hold.
MaxStarts == 2

\* ------------------------------------------------------------------ values

\* JavaScript undefined.
Undef == "undefined"

\* A JavaScript value: its typeof tag (null is kept apart, as the code tests
\* it apart) and a printed form.
Val(t, v) == [t |-> t, v |-> v]

\* An attribute the context does not have.
Absent == Val("absent", "")

VTrue == Val("boolean", "true")

VFalse == Val("boolean", "false")

VZero == Val("number", "0")

V42 == Val("number", "42")

VEmpty == Val("string", "")

VText == Val("string", "value")

VObject == Val("object", "{key}")

VEmptyObject == Val("object", "{}")

VUndefined == Val("undefined", "")

V30 == Val("number", "30")

V31 == Val("number", "31")

VName == Val("string", "Test User")

VNull == Val("null", "null")

VFunction == Val("function", "fn")

\* The attribute names of the user context (everything but targetingKey and
\* fsVisitorInfo).
AttrNames == {"age", "name"}

TargetingKeys == {"user-123", "user-456"}

\* The id the backend gives a visitor created without visitorId.
GeneratedId == "generated-id"

Consents == {"true", "false"}

\* An evaluation context: targetingKey, fsVisitorInfo?.hasConsented and the
\* remaining attributes.  missing = TRUE is initialize() called without one.
Context(tk, hc, attrs) ==
    [missing |-> FALSE, targetingKey |-> tk, hasConsented |-> hc, attrs |-> attrs]

NoAttrs == [k \in AttrNames |-> Absent]

NoContext ==
    [missing |-> TRUE, targetingKey |-> Undef, hasConsented |-> Undef,
     attrs |-> NoAttrs]

AttrBags(ages, names) ==
    {[k \in AttrNames |-> IF k = "age" THEN a ELSE n] : a \in ages, n \in names}

\* The contexts of the concurrent specification: two identities, two values
\* of one attribute.
SmallContexts ==
    {Context(tk, "true", b) : tk \in TargetingKeys, b \in AttrBags({V30, V31}, {Absent})}

\* The contexts of the serialized specification: with and without identity
\* and consent, attributes present or not.
SeqContexts ==
    {Context(tk, hc, b) : tk \in TargetingKeys \cup {Undef},
                          hc \in Consents \cup {Undef},
                          b \in AttrBags({Absent, V30, V31}, {Absent})}

\* The fields of the SDK configuration the model follows: the two the
\* provider sets itself and one it does not.
OptionNames == {"fetchNow", "logManager", "timeout"}

\* A log manager of the caller's own, given in the configuration.
VLogManager == Val("object", "logManager")

\* A configuration object: each field present with a value, or not present.
Configs ==
    {c \in [OptionNames -> {Absent, VTrue, VFalse, VLogManager, V42}] :
        /\ c["fetchNow"] \in {Absent, VTrue, VFalse}
        /\ c["logManager"] \in {Absent, VLogManager}
        /\ c["timeout"] \in {Absent, V42}}

\* No configuration object, or an empty one: spread into an object literal
\* it gives no field.
NoConfig == [k \in OptionNames |-> Absent]

\* The OpenFeature loggers a provider is given.
Loggers == {"mockLogger"}

EnvIds == {"env-test-id", "env-other-id"}

ApiKeys == {"api-test-key"}

\* ------------------------------------------------- pure parts of the provider

\* new AdapterLogger(logger): an object that wraps the logger.
AdapterLogger(logger) == Val("object", logger)

\* The constructor: keeps envId, apiKey and config as given, and wraps the
\* logger when one is given (this._logger stays undefined otherwise).
ABTastyProvider(envId, apiKey, config, logger) ==
    [envId |-> envId, apiKey |-> apiKey, config |-> config,
     logger |-> IF logger # Undef THEN AdapterLogger(logger) ELSE VUndefined]

\* Variant: the configuration is spread last and wins.
StartOptionsConfigLast(config, logger) ==
    [k \in OptionNames |->
        IF config[k] # Absent THEN config[k]
        ELSE IF k = "fetchNow" THEN VFalse
        ELSE IF k = "logManager" THEN logger
        ELSE Absent]

\* The options initializeSDK gives Flagship.start:
\* { ...this._config, fetchNow: false, logManager: this._logger }.
StartOptions(config, logger) ==
    [k \in OptionNames |->
        IF k = "fetchNow" THEN VFalse
        ELSE IF k = "logManager" THEN logger
        ELSE config[k]]

\* The arguments of Flagship.start(this._envId, this._apiKey, options).
StartArgs(p) ==
    [envId |-> p.envId, apiKey |-> p.apiKey,
     options |-> StartOptions(p.config, p.logger)]

\* toPrimitiveRecord: keeps an entry unless its value is null, an object or a
\* function.
toPrimitiveRecord(input) ==
    [k \in AttrNames |->
        IF /\ input[k] # Absent
           /\ input[k].t # "null"
           /\ input[k].t # "object"
           /\ input[k].t # "function"
        THEN input[k]
        ELSE Absent]

\* The argument createVisitor gives Flagship.newVisitor: the fields of
\* fsVisitorInfo, visitorId = targetingKey, context = the primitive record of
\* the other attributes.  A missing context stands for
\* { fsVisitorInfo: { hasConsented: undefined } }.
NewVisitorArgs(context) ==
    [visitorId |-> context.targetingKey,
     hasConsented |-> context.hasConsented,
     context |-> toPrimitiveRecord(context.attrs)]

\* Variant: a handle is created only when there is none.
IdentityChangedFromNone(targetingKey, visitorId) ==
    visitorId = Undef /\ targetingKey # visitorId

\* Variant: every context change creates a handle.
IdentityChangedAlways(targetingKey, visitorId) == TRUE

\* targetingKey != this._visitor?.visitorId, with the identity the current
\* handle has (undefined when there is no handle).
IdentityChanged(targetingKey, visitorId) == targetingKey # visitorId

\* Variant: an undefined hasConsented counts as a change.
ConsentChangedNoGuard(hasConsented, current) == hasConsented # current

\* hasConsented !== undefined && hasConsented !== this._visitor?.hasConsented
ConsentChanged(hasConsented, current) ==
    hasConsented # Undef /\ hasConsented # current

\* Variant: the patch branch never fetches.
NeedsFetchNever(exists, status) == FALSE

\* Variant: the patch branch fetches whatever the status.
NeedsFetchAlways(exists, status) == exists

\* this._visitor && this._visitor.flagsStatus.status === FETCH_REQUIRED
NeedsFetch(exists, status) == exists /\ status = "FETCH_REQUIRED"

\* Variant: the SDK is started unless it is INITIALIZED.
NeedsStartUnlessReady(status) == status # "INITIALIZED"

\* Flagship.getStatus() === FSSdkStatus.SDK_NOT_INITIALIZED
NeedsStart(status) == status = "NOT_INITIALIZED"

\* Variant: the handle is assigned before its fetch is awaited.
CurrentIsCreated(current, created) == created

\* The value of this._visitor while the fetch of a handle just created is
\* awaited: the assignment follows the await, so it is still the old one.
CurrentWhileCreating(current, created) == current

\* The values JavaScript's || treats as false.
Falsy(value) == value \in {VFalse, VZero, VEmpty, VUndefined, VNull}

\* Variant: the flag value as it is.
ResolveValueNoFallback(flagValue, defaultValue) == flagValue

\* Variant: flagValue ?? defaultValue
ResolveValueNullish(flagValue, defaultValue) ==
    IF flagValue \in {VUndefined, VNull} THEN defaultValue ELSE flagValue

\* value: flagValue || defaultValue
ResolveValue(flagValue, defaultValue) ==
    IF Falsy(flagValue) THEN defaultValue ELSE flagValue

\* Flag metadata: campaign and variation ids and an optional slug.
Metadata(slug) ==
    [defined |-> TRUE, campaignId |-> "123", variationId |-> "abc", slug |-> slug]

\* flagMetadata === undefined
NoMetadata ==
    [defined |-> FALSE, campaignId |-> Undef, variationId |-> Undef, slug |-> Undef]

\* Variant: the metadata as the backend gives it.
SanitizeMetadataAsIs(flagMetadata) == flagMetadata

\* flagMetadata ? { ...flagMetadata, slug: flagMetadata.slug ?? '' } : undefined
SanitizeMetadata(flagMetadata) ==
    IF flagMetadata.defined
    THEN [flagMetadata EXCEPT !.slug = IF @ = Undef THEN "" ELSE @]
    ELSE NoMetadata

\* Variant: READY when the SDK is INITIALIZED only.
ProviderStatusWhenInitialized(fsStatus) ==
    IF fsStatus = "INITIALIZED" THEN "READY" ELSE "NOT_READY"

\* get status(): NOT_READY for the two not-started statuses, READY otherwise.
ProviderStatus(fsStatus) ==
    IF fsStatus \in {"NOT_INITIALIZED", "INITIALIZING"} THEN "NOT_READY" ELSE "READY"

\* ------------------------------------------------------ the backend (external)

SdkStatuses == {"NOT_INITIALIZED", "INITIALIZING", "INITIALIZED", "FAILED"}

\* What Flagship.start leaves as the global status when its promise settles.
\* The test double leaves the status it had, NOT_INITIALIZED.
StartOutcomes == {"INITIALIZED", "FAILED", "NOT_INITIALIZED"}

\* A visitor handle.  fetched and dirty are history: fetched = a fetchFlags of
\* this handle has succeeded; dirty = the backend marked it FETCH_REQUIRED
\* (at creation or by a patch) and no fetchFlags call was made on it since.
NoVisitor ==
    [visitorId |-> Undef, hasConsented |-> Undef, context |-> NoAttrs,
     status |-> "NONE", fetched |-> FALSE, dirty |-> FALSE]

\* The identity of a new visitor: the visitorId given, an id of the
\* backend's own when none is given (or none at all).
NewVisitorIds(visitorId) ==
    IF visitorId = Undef THEN {Undef, GeneratedId} ELSE {visitorId}

\* Flagship.newVisitor(args): a handle whose flags are still to be fetched.
NewVisitor(args, id) ==
    [visitorId |-> id, hasConsented |-> args.hasConsented,
     context |-> args.context, status |-> "FETCH_REQUIRED",
     fetched |-> FALSE, dirty |-> TRUE]

\* visitor.setConsent(hasConsented)
SetConsent(v, hasConsented) == [v EXCEPT !.hasConsented = hasConsented]

MergeContext(old, patch) ==
    [k \in AttrNames |-> IF patch[k] # Absent THEN patch[k] ELSE old[k]]

\* visitor.updateContext(patch): merges the patch and marks the flags stale
\* when the context changed.
UpdateContext(v, patch) ==
    LET merged == MergeContext(v.context, patch)
    IN  IF merged # v.context
        THEN [v EXCEPT !.context = merged, !.status = "FETCH_REQUIRED",
                       !.dirty = TRUE]
        ELSE v

\* The status a handle shows while its fetchFlags is in flight.
FetchStartStatuses(v) == {"FETCHING", v.status}

\* visitor.fetchFlags() has been called.
FetchStarted(v, status) == [v EXCEPT !.status = status, !.dirty = FALSE]

\* The fetchFlags promise resolved.
FetchSucceeded(v) == [v EXCEPT !.status = "FETCHED", !.fetched = TRUE]

\* The fetchFlags promise rejected: the flags are still to be fetched.
FetchFailed(v) == [v EXCEPT !.status = "FETCH_REQUIRED"]

\* visitor.getFlag(key) when the visitor has no such flag.
NoFlag == [found |-> FALSE, value |-> VUndefined, metadata |-> NoMetadata]

Flag(value, slug) == [found |-> TRUE, value |-> value, metadata |-> Metadata(slug)]

\* flag.getValue(defaultValue): the flag's value when it has the type of the
\* default, the default otherwise.
GetValue(flag, defaultValue) ==
    IF flag.value.t = defaultValue.t THEN flag.value ELSE defaultValue

\* ------------------------------------------------------------------- state

VARIABLES
    provider,     \* _envId, _apiKey, _config, _logger as the constructor set them
    sdkStatus,    \* Flagship.getStatus()
    startCount,   \* how many times Flagship.start was called
    closeCount,   \* how many times Flagship.close was called
    visitor,      \* this._visitor (NoVisitor when undefined)
    calls,        \* the reconciliation calls in flight, a bag of call records
    lastCall,     \* the call that ended in the last step, if one did
    lastResolve,  \* what the last step returned, when it was a resolution
    lastStatus,   \* what the last step read, when it read the status getter
    lastLog       \* what the last step logged, when it was an AdapterLogger call

vars ==
    <<provider, sdkStatus, startCount, closeCount, visitor, calls, lastCall, lastResolve,
      lastStatus, lastLog>>

\* Flagship.start was not called.
NoStart == [envId |-> Undef, apiKey |-> Undef, options |-> [k \in OptionNames |-> Absent]]

\* A call's record: the handler, where it is, the branch updateVisitorFlags
\* took, its context, the visitor object it created (v), whether the object
\* it patched has since been replaced as this._visitor (orphan), the calls
\* it made so far (ops), the fetch status right after its patch, how many
\* times it assigned this._visitor, how many synchronous blocks it ran, and,
\* for onContextChange, the identity this._visitor had when the call began
\* (with the consent it had, on the patch branch), and the attribute bag it
\* gave updateContext (patch), and how many of its fetches rejected, and the
\* arguments it gave Flagship.start.
NoCall ==
    [kind |-> "none", pc |-> "idle", branch |-> "none", context |-> NoContext,
     v |-> NoVisitor, orphan |-> FALSE, ops |-> <<>>,
     statusAfterPatch |-> "NONE", assigned |-> 0, steps |-> 0,
     hadVisitor |-> FALSE, prevId |-> Undef, prevConsent |-> Undef,
     patch |-> NoAttrs, failed |-> 0, start |-> NoStart]

\* No resolution was the last step.
NoResolve ==
    [active |-> FALSE, visitor |-> NoVisitor, awaited |-> FALSE,
     replacing |-> FALSE, default |-> VUndefined, flag |-> NoFlag,
     value |-> VUndefined, flagMetadata |-> NoMetadata]

\* The status getter was not read in the last step.
NoStatus == "none"

\* The last step was no call of the AdapterLogger.  Otherwise: the method
\* called (via) with its arguments, and the calls it made on the wrapped
\* logger, each the method called and the text given.
NoLog == [via |-> "none", level |-> "NONE", message |-> "", tag |-> "", calls |-> <<>>]

\* The provider of the tests: a configuration that asks for fetchNow, and a
\* logger.
TestConfig ==
    [k \in OptionNames |-> IF k = "fetchNow" THEN VTrue ELSE Absent]

\* The state the constructor and the SDK's module leave.
Constructed(p) ==
    /\ provider = p
    /\ sdkStatus = "NOT_INITIALIZED"
    /\ startCount = 0
    /\ closeCount = 0
    /\ visitor = NoVisitor
    /\ calls = EmptyBag
    /\ lastCall = NoCall
    /\ lastResolve = NoResolve
    /\ lastStatus = NoStatus
    /\ lastLog = NoLog

Init ==
    Constructed(ABTastyProvider("env-test-id", "api-test-key", TestConfig, "mockLogger"))

\* ----------------------------------------------------------------- helpers

InFlight == BagToSet(calls)

\* A call can begin while fewer than MaxCalls are in flight.
CanBegin == BagCardinality(calls) < MaxCalls /\ closeCount = 0

\* The caller awaits each call before the next (spec section 5).
Quiet == calls = EmptyBag

Without(rec) == calls (-) SetToBag({rec})

With(b, rec) == b (+) SetToBag({rec})

\* this._visitor has been assigned another object: the calls that patched
\* the old one and still await its fetch now hold an object of their own.
Orphaned(b) ==
    LET mark(r) == IF r.branch = "patch" THEN [r EXCEPT !.orphan = TRUE] ELSE r
        T == {mark(r) : r \in BagToSet(b)}
    IN  [t \in T |->
            CopiesIn(t, b) +
            (IF t.branch = "patch" THEN CopiesIn([t EXCEPT !.orphan = FALSE], b) ELSE 0)]

\* The default values and the backend's answers to getFlag a resolution of
\* the concurrent specification draws from.
SmallDefaults == {VFalse}

SmallFlags == {Flag(VTrue, Undef)}

\* ------------------------------------------------------------ the provider

\* createVisitor up to its await: Flagship.newVisitor with the arguments made
\* from the context, then visitor.fetchFlags() is called and awaited.
createVisitor(b, rec, id) ==
    LET created == FetchStarted(NewVisitor(NewVisitorArgs(rec.context), id), "FETCHING")
        cur == CurrentWhileCreating(visitor, created)
    IN  /\ visitor' = cur
        /\ calls' = With(b, [rec EXCEPT !.pc = "awaitFetch", !.v = created,
                                        !.steps = @ + 1,
                                        !.ops = @ \o <<"newVisitor", "fetchFlags">>])

\* initialize(context) up to the first await: initializeSDK calls
\* Flagship.start when the SDK is NOT_INITIALIZED, and is awaited either way.
initialize(context) ==
    /\ CanBegin
    /\ LET rec == [NoCall EXCEPT !.kind = "initialize", !.branch = "create",
                                 !.context = context, !.steps = 1]
       IN  IF NeedsStart(sdkStatus)
           THEN /\ startCount < MaxStarts
                /\ sdkStatus' = "INITIALIZING"
                /\ startCount' = startCount + 1
                /\ calls' = With(calls, [rec EXCEPT !.pc = "awaitStart",
                                                    !.ops = <<"start">>,
                                                    !.start = StartArgs(provider)])
           ELSE /\ calls' = With(calls, [rec EXCEPT !.pc = "afterSDK"])
                /\ UNCHANGED <<sdkStatus, startCount>>
    /\ lastCall' = NoCall
    /\ lastResolve' = NoResolve
    /\ lastStatus' = NoStatus
    /\ lastLog' = NoLog
    /\ UNCHANGED <<provider, closeCount, visitor>>

\* The promise of Flagship.start settles; initialize goes on to createVisitor.
StartDone(rec, outcome) ==
    /\ rec.pc = "awaitStart"
    /\ sdkStatus' = outcome
    /\ \E id \in NewVisitorIds(rec.context.targetingKey) :
          createVisitor(Without(rec), rec, id)
    /\ lastCall' = NoCall
    /\ lastResolve' = NoResolve
    /\ lastStatus' = NoStatus
    /\ lastLog' = NoLog
    /\ UNCHANGED <<provider, startCount, closeCount>>

\* initializeSDK had nothing to start; initialize goes on to createVisitor.
AfterSDK(rec) ==
    /\ rec.pc = "afterSDK"
    /\ \E id \in NewVisitorIds(rec.context.targetingKey) :
          createVisitor(Without(rec), rec, id)
    /\ lastCall' = NoCall
    /\ lastResolve' = NoResolve
    /\ lastStatus' = NoStatus
    /\ lastLog' = NoLog
    /\ UNCHANGED <<provider, sdkStatus, startCount, closeCount>>

\* updateVisitorFlags below the identity test: the consent toggle, then the
\* attribute patch.  Gives the visitor as patched and the calls made on it.
PatchVisitor(v, context) ==
    LET toggle == ConsentChanged(context.hasConsented, v.hasConsented)
        consented == IF toggle THEN SetConsent(v, context.hasConsented) ELSE v
    IN  [v |-> UpdateContext(consented, toPrimitiveRecord(context.attrs)),
         patch |-> toPrimitiveRecord(context.attrs),
         ops |-> (IF toggle THEN <<"setConsent">> ELSE <<>>) \o <<"updateContext">>]

\* onContextChange(_, context) up to its first await (or to its end).
onContextChange(context) ==
    /\ CanBegin
    /\ LET rec == [NoCall EXCEPT !.kind = "onContextChange", !.context = context,
                                 !.hadVisitor = visitor # NoVisitor,
                                 !.prevId = visitor.visitorId]
       IN  IF IdentityChanged(context.targetingKey, visitor.visitorId)
           THEN /\ \E id \in NewVisitorIds(context.targetingKey) :
                      createVisitor(calls, [rec EXCEPT !.branch = "create"], id)
                /\ lastCall' = NoCall
           ELSE IF visitor = NoVisitor
           THEN /\ lastCall' = [rec EXCEPT !.branch = "patch", !.pc = "done",
                                           !.steps = 1]
                /\ UNCHANGED <<visitor, calls>>
           ELSE LET p == PatchVisitor(visitor, context)
                    prec == [rec EXCEPT !.branch = "patch", !.ops = p.ops,
                                        !.patch = p.patch,
                                        !.steps = 1,
                                        !.prevConsent = visitor.hasConsented,
                                        !.statusAfterPatch = p.v.status]
                IN  IF NeedsFetch(TRUE, p.v.status)
                    THEN /\ \E status \in FetchStartStatuses(p.v) :
                              visitor' = FetchStarted(p.v, status)
                         /\ calls' = With(calls, [prec EXCEPT !.pc = "awaitFetch",
                                                       !.ops = @ \o <<"fetchFlags">>])
                         /\ lastCall' = NoCall
                    ELSE /\ visitor' = p.v
                         /\ lastCall' = [prec EXCEPT !.pc = "done"]
                         /\ UNCHANGED calls
    /\ lastResolve' = NoResolve
    /\ lastStatus' = NoStatus
    /\ lastLog' = NoLog
    /\ UNCHANGED <<provider, sdkStatus, startCount, closeCount>>

\* Variant: the created handle is stored only when its identity is not the
\* current one's.
AssignsVisitorIfNew(rec) ==
    rec.branch = "create" /\ visitor.visitorId # rec.v.visitorId

\* Variant: the created handle is stored only when there is none (the first
\* write wins).
AssignsVisitorIfNone(rec) == rec.branch = "create" /\ visitor = NoVisitor

\* Whether a call assigns this._visitor once its fetch has resolved: the
\* handle it created (initialize, identity branch); not on the patch branch.
AssignsVisitor(rec) == rec.branch = "create"

\* Variant: nothing is emitted.
EmitsReadyNever(rec) == FALSE

\* Variant: every call that installs a handle emits.
EmitsReadyOnCreate(rec) == rec.branch = "create"

\* this.events.emit(ProviderEvents.Ready): initialize only.
EmitsReady(rec) == rec.kind = "initialize"

\* The fetchFlags a call awaits resolves and the call runs to its end.
FetchOk(rec) ==
    /\ rec.pc = "awaitFetch"
    /\ LET fetched == FetchSucceeded(IF rec.branch = "create" THEN rec.v ELSE visitor)
           ended == [rec EXCEPT !.pc = "done", !.steps = @ + 1,
                                !.v = IF rec.branch = "create" THEN fetched ELSE @,
                                !.assigned = IF AssignsVisitor(rec) THEN @ + 1 ELSE @,
                                !.ops = IF EmitsReady(rec)
                                        THEN @ \o <<"emitReady">> ELSE @]
       IN  /\ IF AssignsVisitor(rec)
              THEN /\ visitor' = fetched
                   /\ calls' = Orphaned(Without(rec))
              ELSE /\ visitor' = IF rec.orphan THEN visitor ELSE fetched
                   /\ calls' = Without(rec)
           /\ lastCall' = ended
    /\ lastResolve' = NoResolve
    /\ lastStatus' = NoStatus
    /\ lastLog' = NoLog
    /\ UNCHANGED <<provider, sdkStatus, startCount, closeCount>>

\* Variant: the rejection is caught and the call resolves.
AfterFetchFailureSuppressed(rec) == "done"

\* Where a call is once the fetchFlags it awaits has rejected: no try/catch
\* surrounds the await, in createVisitor, updateVisitorFlags or their callers.
AfterFetchFailure(rec) == "rejected"

\* Variant: a rejected fetch clears this._visitor.
VisitorClearedByRejection(v) == NoVisitor

\* this._visitor once an awaited fetchFlags has rejected: the rejection
\* leaves createVisitor or updateVisitorFlags at the await, and nothing
\* assigns this._visitor or undoes what was done to it.
VisitorAfterRejection(v) == v

\* The fetchFlags a call awaits rejects and the call rejects with it.
FetchFail(rec) ==
    /\ rec.pc = "awaitFetch"
    /\ visitor' = VisitorAfterRejection(IF rec.branch = "patch" /\ ~rec.orphan
                                        THEN FetchFailed(visitor) ELSE visitor)
    /\ calls' = Without(rec)
    /\ lastCall' = [rec EXCEPT !.pc = AfterFetchFailure(rec), !.steps = @ + 1,
                               !.failed = @ + 1,
                               !.v = IF rec.branch = "create"
                                     THEN FetchFailed(@) ELSE @]
    /\ lastResolve' = NoResolve
    /\ lastStatus' = NoStatus
    /\ lastLog' = NoLog
    /\ UNCHANGED <<provider, sdkStatus, startCount, closeCount>>

\* Variant: a resolution fetches the flags of the visitor it reads.
VisitorFetchedByResolve(v) ==
    IF v = NoVisitor THEN v ELSE FetchStarted(v, "FETCHING")

\* this._visitor after resolveEvaluation: the method reads it (getFlag,
\* getValue, metadata) and neither assigns it nor calls anything else on it.
VisitorAfterResolve(v) == v

\* resolveEvaluation(flagKey, defaultValue), answer being what getFlag gives
\* for the key when there is a visitor.
resolveEvaluation(defaultValue, answer) ==
    /\ closeCount = 0
    /\ LET flag == IF visitor = NoVisitor THEN NoFlag ELSE answer
           flagValue == IF flag.found THEN GetValue(flag, defaultValue) ELSE VUndefined
       IN  lastResolve' =
             [active |-> TRUE, visitor |-> visitor,
              awaited |-> \E r \in InFlight : /\ r.pc = "awaitFetch"
                                              /\ r.branch = "patch"
                                              /\ ~r.orphan,
              replacing |-> \E r \in InFlight : r.branch = "create",
              default |-> defaultValue, flag |-> flag,
              value |-> ResolveValue(flagValue, defaultValue),
              flagMetadata |-> SanitizeMetadata(flag.metadata)]
    /\ visitor' = VisitorAfterResolve(visitor)
    /\ lastCall' = NoCall
    /\ lastStatus' = NoStatus
    /\ lastLog' = NoLog
    /\ UNCHANGED <<provider, sdkStatus, startCount, closeCount, calls>>

\* Variant: onClose clears this._visitor.
VisitorClearedByClose(v) == NoVisitor

\* this._visitor after onClose: the method returns Flagship.close() and
\* neither reads nor assigns it.
VisitorAfterClose(v) == v

\* onClose(): Flagship.close().
onClose ==
    /\ closeCount = 0
    /\ closeCount' = closeCount + 1
    /\ visitor' = VisitorAfterClose(visitor)
    /\ lastCall' = NoCall
    /\ lastResolve' = NoResolve
    /\ lastStatus' = NoStatus
    /\ lastLog' = NoLog
    /\ UNCHANGED <<provider, sdkStatus, startCount, calls>>

\* get status(): reads Flagship.getStatus() and projects it.
status ==
    /\ lastStatus' = ProviderStatus(sdkStatus)
    /\ lastCall' = NoCall
    /\ lastResolve' = NoResolve
    /\ lastLog' = NoLog
    /\ UNCHANGED <<provider, sdkStatus, startCount, closeCount, visitor, calls>>

\* ------------------------------------------------------- the AdapterLogger

\* The members of LogLevel.
LogLevels ==
    {"NONE", "EMERGENCY", "ALERT", "CRITICAL", "ERROR", "WARNING", "NOTICE",
     "INFO", "DEBUG", "ALL"}

\* colorCodes[level]
colorCodes(level) ==
    CASE level \in {"EMERGENCY", "CRITICAL", "ERROR"} -> "\\x1b[1;37;41m"
      [] level = "ALERT" -> "\\x1b[1;37;45m"
      [] level = "WARNING" -> "\\x1b[33;1m"
      [] level = "NOTICE" -> "\\x1b[36;1m"
      [] level = "INFO" -> "\\x1b[32;1m"
      [] level \in {"DEBUG", "ALL"} -> "\\x1b[90;1m"
      [] OTHER -> ""

\* value.toString(): the decimal digits of a number.
RECURSIVE toString(_)
toString(value) ==
    IF value < 10 THEN <<value>> ELSE toString(value \div 10) \o <<value % 10>>

\* digits.padStart(width, '0')
RECURSIVE padStart(_, _)
padStart(digits, width) ==
    IF Len(digits) < width THEN padStart(<<0>> \o digits, width) ELSE digits

formatTwoDigits(value) == padStart(toString(value), 2)

formatMilliseconds(value) == padStart(toString(value), 3)

\* The values new Date() can give: the fields of the local time.
Dates ==
    {[year |-> 2023, month |-> 0, date |-> 1, hours |-> 12, minutes |-> 30,
      seconds |-> 45, milliseconds |-> 123],
     [year |-> 2023, month |-> 0, date |-> 1, hours |-> 1, minutes |-> 2,
      seconds |-> 3, milliseconds |-> 4]}

\* The messages and tags the SDK logs with.
Messages == {"", "Test message"}

Tags == {"", "TestTag"}

\* formatLogOutput(level, message, tag), now being what new Date() gives:
\* the parts of the string, in the order of the template.
formatLogOutput(level, message, tag, now) ==
    [colorCode |-> colorCodes(level),
     timestamp |-> <<toString(now.year), formatTwoDigits(now.month + 1),
                     formatTwoDigits(now.date), formatTwoDigits(now.hours),
                     formatTwoDigits(now.minutes), formatTwoDigits(now.seconds),
                     formatMilliseconds(now.milliseconds)>>,
     source |-> "Flagship SDK",
     levelName |-> level,
     tag |-> tag,
     message |-> message,
     resetColor |-> "\\x1b[0m"]

\* A method of the AdapterLogger runs: it calls one method of the wrapped
\* logger with the text formatted for a level.
Forward(via, method, level, message, tag, now) ==
    /\ lastLog' = [via |-> via, level |-> level, message |-> message, tag |-> tag,
                   calls |-> <<[method |-> method,
                                text |-> formatLogOutput(level, message, tag, now)]>>]
    /\ lastCall' = NoCall
    /\ lastResolve' = NoResolve
    /\ lastStatus' = NoStatus
    /\ UNCHANGED <<provider, sdkStatus, startCount, closeCount, visitor, calls>>

emergency(message, tag, now) ==
    Forward("emergency", "error", "EMERGENCY", message, tag, now)

alert(message, tag, now) == Forward("alert", "error", "ALERT", message, tag, now)

critical(message, tag, now) ==
    Forward("critical", "error", "CRITICAL", message, tag, now)

error(message, tag, now) == Forward("error", "error", "ERROR", message, tag, now)

warning(message, tag, now) == Forward("warning", "warn", "WARNING", message, tag, now)

\* Variant: notice goes to info.
noticeToInfo(message, tag, now) ==
    Forward("notice", "info", "NOTICE", message, tag, now)

notice(message, tag, now) == Forward("notice", "warn", "NOTICE", message, tag, now)

info(message, tag, now) == Forward("info", "info", "INFO", message, tag, now)

debug(message, tag, now) == Forward("debug", "debug", "DEBUG", message, tag, now)

log(level, message, tag, now) == Forward("log", "debug", level, message, tag, now)

\* The SDK logs through the AdapterLogger.
NextLogger ==
    \/ \E message \in Messages, tag \in Tags, now \in Dates :
          emergency(message, tag, now)
    \/ \E message \in Messages, tag \in Tags, now \in Dates : alert(message, tag, now)
    \/ \E message \in Messages, tag \in Tags, now \in Dates :
          critical(message, tag, now)
    \/ \E message \in Messages, tag \in Tags, now \in Dates : error(message, tag, now)
    \/ \E message \in Messages, tag \in Tags, now \in Dates : warning(message, tag, now)
    \/ \E message \in Messages, tag \in Tags, now \in Dates : notice(message, tag, now)
    \/ \E message \in Messages, tag \in Tags, now \in Dates : info(message, tag, now)
    \/ \E message \in Messages, tag \in Tags, now \in Dates : debug(message, tag, now)
    \/ \E level \in LogLevels, message \in Messages, tag \in Tags, now \in Dates :
          log(level, message, tag, now)

SpecLogger == Init /\ [][NextLogger]_vars

\* Calls may overlap: the caller does not await them.
Next ==
    \/ \E context \in SmallContexts : initialize(context)
    \/ \E rec \in InFlight : StartDone(rec, "INITIALIZED")
    \/ \E rec \in InFlight : AfterSDK(rec)
    \/ \E context \in SmallContexts : onContextChange(context)
    \/ \E rec \in InFlight : FetchOk(rec)
    \/ \E rec \in InFlight : FetchFail(rec)
    \/ \E d \in SmallDefaults, f \in SmallFlags : resolveEvaluation(d, f)
    \/ onClose

Spec == Init /\ [][Next]_vars

\* The caller awaits each call before it makes the next.
NextSeq ==
    \/ Quiet /\ \E context \in SeqContexts \cup {NoContext} : initialize(context)
    \/ \E rec \in InFlight, outcome \in StartOutcomes : StartDone(rec, outcome)
    \/ \E rec \in InFlight : AfterSDK(rec)
    \/ Quiet /\ \E context \in SeqContexts : onContextChange(context)
    \/ \E rec \in InFlight : FetchOk(rec)
    \/ \E rec \in InFlight : FetchFail(rec)
    \/ \E d \in SmallDefaults, f \in SmallFlags \cup {NoFlag} : resolveEvaluation(d, f)
    \/ onClose

SpecSeq == Init /\ [][NextSeq]_vars

\* The default values a resolution is given: a boolean of each value, a
\* string, a number, a structured value.
Defaults == {VFalse, VTrue, VText, VZero, VEmptyObject}

\* The answers of getFlag: no flag, or a flag of any value, with or without
\* a slug in its metadata.
Flags ==
    {NoFlag} \cup
    {Flag(value, slug) :
        value \in {VFalse, VTrue, VZero, V42, VEmpty, VText, VObject},
        slug \in {Undef, "test-slug"}}

\* Resolutions of every kind, before and after an initialize().
NextResolve ==
    \/ Quiet /\ initialize(NoContext)
    \/ \E rec \in InFlight : StartDone(rec, "INITIALIZED")
    \/ \E rec \in InFlight : AfterSDK(rec)
    \/ \E rec \in InFlight : FetchOk(rec)
    \/ \E rec \in InFlight : FetchFail(rec)
    \/ \E d \in Defaults, f \in Flags : resolveEvaluation(d, f)

SpecResolve == Init /\ [][NextResolve]_vars

\* The contexts of the calls that overlap around Flagship.start.
StartContexts == {Context(tk, "true", NoAttrs) : tk \in TargetingKeys}

\* Calls that overlap, with every outcome of Flagship.start, and reads of
\* the status getter.
NextStart ==
    \/ \E context \in StartContexts : initialize(context)
    \/ \E rec \in InFlight, outcome \in StartOutcomes : StartDone(rec, outcome)
    \/ \E rec \in InFlight : AfterSDK(rec)
    \/ \E context \in StartContexts : onContextChange(context)
    \/ \E rec \in InFlight : FetchOk(rec)
    \/ \E rec \in InFlight : FetchFail(rec)
    \/ status

SpecStart == Init /\ [][NextStart]_vars

\* Contexts whose attributes hold values of every kind: a number, a string,
\* a boolean, null, an object, a function, undefined.
AttrContexts ==
    {Context("user-123", "true", b) :
        b \in AttrBags({Absent, V30, VNull, VObject, VFunction, VUndefined},
                       {Absent, VName, VTrue})}

\* Awaited calls with attributes of every kind.
NextAttrs ==
    \/ Quiet /\ \E context \in AttrContexts : initialize(context)
    \/ \E rec \in InFlight : StartDone(rec, "INITIALIZED")
    \/ \E rec \in InFlight : AfterSDK(rec)
    \/ Quiet /\ \E context \in AttrContexts : onContextChange(context)
    \/ \E rec \in InFlight : FetchOk(rec)
    \/ \E rec \in InFlight : FetchFail(rec)

SpecAttrs == Init /\ [][NextAttrs]_vars

\* The providers a caller can construct: with or without configuration,
\* with or without logger.
Providers ==
    {ABTastyProvider(envId, apiKey, config, logger) :
        envId \in EnvIds, apiKey \in ApiKeys,
        config \in Configs \cup {NoConfig}, logger \in Loggers \cup {Undef}}

InitOptions == \E p \in Providers : Constructed(p)

\* Awaited initialize calls of a provider constructed in any way, with every
\* outcome of Flagship.start.
NextOptions ==
    \/ Quiet /\ \E context \in StartContexts : initialize(context)
    \/ \E rec \in InFlight, outcome \in StartOutcomes : StartDone(rec, outcome)
    \/ \E rec \in InFlight : AfterSDK(rec)
    \/ \E rec \in InFlight : FetchOk(rec)
    \/ \E rec \in InFlight : FetchFail(rec)

SpecOptions == InitOptions /\ [][NextOptions]_vars

\* ------------------------------------------------------------- properties

\* How many times a call made the backend call op.
Count(ops, op) == Cardinality({i \in DOMAIN ops : ops[i] = op})

\* The calls in flight and the call that has just ended.
Records == InFlight \cup {lastCall}

\* An onContextChange whose targetingKey differs from the identity
\* this._visitor had when it began.
ChangesIdentity(r) ==
    r.kind = "onContextChange" /\ r.context.targetingKey # r.prevId

\* An onContextChange whose targetingKey is the identity of the handle
\* there was when it began.
KeepsIdentity(r) ==
    r.kind = "onContextChange" /\ r.hadVisitor /\ r.context.targetingKey = r.prevId

\* What an identity-changing call does up to its await: one newVisitor made
\* from its context, one fetchFlags on it, nothing else.
CreatesOnce(r) ==
    /\ r.branch = "create"
    /\ r.ops = <<"newVisitor", "fetchFlags">>
    /\ r.v # NoVisitor
    /\ r.v.visitorId \in NewVisitorIds(r.context.targetingKey)
    /\ r.v.hasConsented = r.context.hasConsented
    /\ r.v.context = toPrimitiveRecord(r.context.attrs)

\* C1 as stated: every onContextChange whose targetingKey differs from the
\* current identity creates one handle from the new context, fetches it once,
\* makes no updateContext or setConsent call, and, once it has ended, has
\* made that handle the current one.
C1_Stated ==
    \A r \in Records :
        ChangesIdentity(r) =>
            /\ CreatesOnce(r)
            /\ r.pc \in {"done", "rejected"} => r.assigned = 1 /\ visitor = r.v

\* C1 amended: such a call creates one handle from the new context, fetches
\* it once and makes no updateContext or setConsent call; the handle becomes
\* the current one when the fetch resolves, and when the fetch rejects the
\* call rejects with this._visitor left as it was.
C1_IdentityChange ==
    \A r \in Records :
        ChangesIdentity(r) =>
            /\ CreatesOnce(r)
            /\ r.pc = "done" =>
                  r.assigned = 1 /\ visitor = r.v /\ r.v.status = "FETCHED"
            /\ r.pc # "done" => r.assigned = 0
            /\ r.pc = "rejected" /\ r.hadVisitor => visitor.visitorId = r.prevId

\* An empty context replaced a handle that had an identity.
C1_Witness ==
    /\ lastCall.kind = "onContextChange"
    /\ lastCall.pc = "done"
    /\ lastCall.context.targetingKey = Undef
    /\ lastCall.hadVisitor
    /\ lastCall.prevId \in TargetingKeys
    /\ visitor = lastCall.v

\* C2: an onContextChange whose targetingKey is the identity of the current
\* handle takes the patch branch: it calls newVisitor never and assigns
\* this._visitor never, so the handle is the same object after the call.
C2_SameIdentity ==
    \A r \in Records :
        KeepsIdentity(r) =>
            /\ r.branch = "patch"
            /\ Count(r.ops, "newVisitor") = 0
            /\ r.assigned = 0
            /\ r.v = NoVisitor
            /\ Count(r.ops, "updateContext") = 1

\* A patching call has ended after a fetch, the handle still the one it had.
C2_Witness ==
    /\ KeepsIdentity(lastCall)
    /\ lastCall.pc = "done"
    /\ Count(lastCall.ops, "fetchFlags") = 1
    /\ visitor.visitorId = lastCall.prevId

\* C3 as stated: no resolution reads this._visitor while its status is
\* FETCH_REQUIRED and the re-fetch of the onContextChange that patched it is
\* still awaited.
C3_Stated ==
    lastResolve.active =>
        ~(lastResolve.awaited /\ lastResolve.visitor.status = "FETCH_REQUIRED")

\* C3 amended: a resolution does not wait for a re-fetch, it reads the
\* handle as it is while the re-fetch is in flight; but the patch, the status
\* test and the fetchFlags call are one synchronous block, so no resolution
\* reads a handle that was marked FETCH_REQUIRED and whose fetch has not
\* been requested yet.
C3_FetchRequested ==
    /\ ~visitor.dirty
    /\ lastResolve.active => ~lastResolve.visitor.dirty
    /\ \A r \in InFlight :
          r.branch = "patch" /\ r.statusAfterPatch = "FETCH_REQUIRED" =>
              r.pc = "awaitFetch" /\ Count(r.ops, "fetchFlags") = 1

\* A resolution read the handle while the re-fetch of a patch was awaited.
C3_Witness ==
    /\ lastResolve.active
    /\ lastResolve.awaited
    /\ lastResolve.visitor.fetched
    /\ ~lastResolve.visitor.dirty

\* C4: this._visitor is assigned a created handle only after its fetchFlags
\* resolved, so the handle a resolution reads (when there is one) has
\* finished its creation fetch, and a handle whose creation fetch is awaited
\* is not the current one.
C4_NoPartialHandle ==
    /\ visitor # NoVisitor => visitor.fetched
    /\ lastResolve.active /\ lastResolve.visitor # NoVisitor =>
          lastResolve.visitor.fetched
    /\ \A r \in InFlight :
          r.branch = "create" /\ r.pc = "awaitFetch" =>
              ~r.v.fetched /\ visitor # r.v

\* A resolution read the old handle while its replacement was being fetched.
C4_Witness ==
    /\ lastResolve.active
    /\ lastResolve.replacing
    /\ lastResolve.visitor # NoVisitor
    /\ \E r \in InFlight : r.branch = "create" /\ r.pc = "awaitFetch"
                           /\ r.v.visitorId # lastResolve.visitor.visitorId

\* C5 as stated: every initialize that has ended emitted Ready exactly once,
\* and Ready is emitted only by a call whose handle is fetched and stored.
C5_Stated ==
    \A r \in Records :
        r.kind = "initialize" =>
            /\ r.pc \in {"done", "rejected"} => Count(r.ops, "emitReady") = 1
            /\ Count(r.ops, "emitReady") > 0 => r.pc = "done" /\ r.assigned = 1

\* C5 amended: an initialize whose fetch resolves emits Ready exactly once,
\* as its last step, after the fetch and the assignment of this._visitor;
\* an initialize whose fetch rejects, or that is still in flight, has emitted
\* none.
C5_ReadyAfterFetch ==
    \A r \in Records :
        r.kind = "initialize" =>
            /\ Count(r.ops, "emitReady") = IF r.pc = "done" THEN 1 ELSE 0
            /\ r.pc = "done" =>
                  /\ r.ops[Len(r.ops)] = "emitReady"
                  /\ r.ops[Len(r.ops) - 1] = "fetchFlags"
                  /\ r.assigned = 1
                  /\ visitor = r.v
                  /\ visitor.status = "FETCHED"

\* An initialize has ended with its Ready emitted.
C5_Witness ==
    /\ lastCall.kind = "initialize"
    /\ lastCall.pc = "done"
    /\ Count(lastCall.ops, "emitReady") = 1

\* C6 as stated: over any sequence or interleaving of calls Flagship.start
\* is called at most once.
C6_Stated == startCount <= 1

\* C6 amended: Flagship.start is called only by initialize, at most once in
\* a call, and only in a step that reads the status NOT_INITIALIZED;
\* onContextChange never calls it, and no call does while the status is
\* another one.  (A start that settles with the status NOT_INITIALIZED again
\* is followed by another start in the next initialize.)
C6_StartGuard ==
    [][/\ startCount' # startCount =>
             /\ sdkStatus = "NOT_INITIALIZED"
             /\ startCount' = startCount + 1
             /\ \E r \in InFlight' : r.kind = "initialize" /\ r.pc = "awaitStart"
       /\ \A r \in Records' :
             /\ Count(r.ops, "start") <= 1
             /\ r.kind = "onContextChange" => Count(r.ops, "start") = 0]_vars

\* An initialize that found the SDK started has ended without a start.
C6_Witness ==
    /\ startCount = 1
    /\ sdkStatus = "INITIALIZED"
    /\ lastCall.kind = "initialize"
    /\ lastCall.pc = "done"
    /\ Count(lastCall.ops, "start") = 0

\* C7: on the patch branch, with a handle, fetchFlags is called once when the
\* status after the consent toggle and the patch is FETCH_REQUIRED, and the
\* call ends only when that fetch has resolved; it is not called otherwise.
\* No call makes more than one fetchFlags or more than one newVisitor.
C7_ConditionalFetch ==
    \A r \in Records :
        /\ Count(r.ops, "fetchFlags") <= 1
        /\ Count(r.ops, "newVisitor") <= 1
        /\ r.branch = "patch" /\ r.hadVisitor =>
              /\ r.ops[Len(r.ops)] \in {"updateContext", "fetchFlags"}
              /\ Count(r.ops, "fetchFlags") =
                    IF r.statusAfterPatch = "FETCH_REQUIRED" THEN 1 ELSE 0
              /\ Count(r.ops, "fetchFlags") = 1 =>
                    /\ r.ops[Len(r.ops)] = "fetchFlags"
                    /\ r.pc \in {"awaitFetch", "done", "rejected"}
                    /\ r.pc = "done" =>
                          r.steps = 2 /\ (~r.orphan => visitor.status = "FETCHED")
              /\ Count(r.ops, "fetchFlags") = 0 => r.pc = "done" /\ r.steps = 1

\* A patch that marked the handle FETCH_REQUIRED has ended after its fetch.
C7_Witness ==
    /\ lastCall.branch = "patch"
    /\ lastCall.hadVisitor
    /\ lastCall.pc = "done"
    /\ lastCall.statusAfterPatch = "FETCH_REQUIRED"
    /\ Count(lastCall.ops, "fetchFlags") = 1
    /\ visitor.status = "FETCHED"

\* The consent toggle of a patching call: hasConsented is defined and is not
\* the consent the handle had.
Toggles(r) ==
    r.context.hasConsented # Undef /\ r.context.hasConsented # r.prevConsent

\* C8: a patching call makes one setConsent, with the new value and before
\* updateContext, exactly when hasConsented is defined and differs from the
\* handle's consent; otherwise it makes none and the consent stays.  The
\* toggle creates no handle, and no fetch follows unless the status after
\* the patch is FETCH_REQUIRED.
C8_ConsentToggle ==
    \A r \in Records :
        r.kind = "onContextChange" /\ r.branch = "patch" /\ r.hadVisitor =>
            /\ Count(r.ops, "setConsent") = IF Toggles(r) THEN 1 ELSE 0
            /\ Toggles(r) => r.ops[1] = "setConsent" /\ r.ops[2] = "updateContext"
            /\ ~Toggles(r) => r.ops[1] = "updateContext"
            /\ visitor.hasConsented =
                  IF Toggles(r) THEN r.context.hasConsented ELSE r.prevConsent
            /\ Count(r.ops, "newVisitor") = 0
            /\ r.statusAfterPatch # "FETCH_REQUIRED" =>
                  Count(r.ops, "fetchFlags") = 0

\* A call that changed the consent only has ended without a fetch.
C8_Witness ==
    /\ lastCall.kind = "onContextChange"
    /\ lastCall.branch = "patch"
    /\ lastCall.hadVisitor
    /\ lastCall.pc = "done"
    /\ lastCall.prevConsent = "true"
    /\ lastCall.context.hasConsented = "false"
    /\ lastCall.ops = <<"setConsent", "updateContext">>
    /\ visitor.hasConsented = "false"

\* C9: a resolution with no handle, or with a handle that has no flag for
\* the key, returns the default value it was given with undefined metadata.
C9_DefaultOnAbsence ==
    lastResolve.active /\ (lastResolve.visitor = NoVisitor \/ ~lastResolve.flag.found) =>
        /\ lastResolve.value = lastResolve.default
        /\ lastResolve.flagMetadata = NoMetadata

\* A resolution read a handle that had no flag for the key, the default
\* being a structured value.
C9_Witness ==
    /\ lastResolve.active
    /\ lastResolve.visitor # NoVisitor
    /\ ~lastResolve.flag.found
    /\ lastResolve.default = VEmptyObject
    /\ lastResolve.value = VEmptyObject

\* C10: for a flag the handle has, the result is what getValue(default)
\* evaluated, unless that is false, 0 or the empty string, and then it is
\* the default: the result for a falsy flag is the result for no flag.
C10_FalsyFallsBack ==
    lastResolve.active /\ lastResolve.flag.found =>
        LET evaluated == GetValue(lastResolve.flag, lastResolve.default)
        IN  lastResolve.value =
               IF evaluated \in {VFalse, VZero, VEmpty}
               THEN lastResolve.default
               ELSE evaluated

\* A flag that is false was resolved with the default true, and gave true.
C10_Witness ==
    /\ lastResolve.active
    /\ lastResolve.flag.found
    /\ lastResolve.flag.value = VFalse
    /\ lastResolve.default = VTrue
    /\ lastResolve.value = VTrue

\* C11: for a flag the handle has, the metadata returned has a slug: the
\* backend's slug when it gives one, the empty string when it gives none;
\* campaignId and variationId are the backend's.
C11_SlugAlways ==
    lastResolve.active /\ lastResolve.flag.found =>
        /\ lastResolve.flagMetadata.defined
        /\ lastResolve.flagMetadata.slug # Undef
        /\ lastResolve.flagMetadata.slug =
              IF lastResolve.flag.metadata.slug = Undef
              THEN ""
              ELSE lastResolve.flag.metadata.slug
        /\ lastResolve.flagMetadata.campaignId = lastResolve.flag.metadata.campaignId
        /\ lastResolve.flagMetadata.variationId = lastResolve.flag.metadata.variationId

\* A flag whose metadata has no slug was resolved, and the slug is ''.
C11_Witness ==
    /\ lastResolve.active
    /\ lastResolve.flag.found
    /\ lastResolve.flag.metadata.slug = Undef
    /\ lastResolve.flagMetadata.slug = ""
    /\ lastResolve.flagMetadata.campaignId = "123"

\* C12: the status getter gives NOT_READY when Flagship.getStatus() is
\* NOT_INITIALIZED or INITIALIZING at the time of the read and READY for
\* every other status, whatever it gave before, and the read changes nothing
\* of the provider or the backend.
C12_StatusProjection ==
    [][lastStatus' # NoStatus =>
          /\ lastStatus' = IF sdkStatus \in {"NOT_INITIALIZED", "INITIALIZING"}
                           THEN "NOT_READY"
                           ELSE "READY"
          /\ UNCHANGED <<sdkStatus, startCount, closeCount, visitor, calls>>]_vars

\* The getter was read after a start that failed, and gave READY.
C12_Witness ==
    /\ lastStatus = "READY"
    /\ sdkStatus = "FAILED"
    /\ startCount = 1

\* The entries of an attribute bag whose value is a string, a number or a
\* boolean.
StringNumberBoolean(attrs) ==
    [k \in AttrNames |->
        IF attrs[k].t \in {"string", "number", "boolean"} THEN attrs[k] ELSE Absent]

\* C13 as stated: the context given to newVisitor and the patch given to
\* updateContext hold exactly the attributes of the evaluation context
\* (targetingKey and fsVisitorInfo apart) whose value is a string, a number
\* or a boolean.
C13_Stated ==
    \A r \in Records :
        /\ Count(r.ops, "newVisitor") = 1 =>
              r.v.context = StringNumberBoolean(r.context.attrs)
        /\ Count(r.ops, "updateContext") = 1 =>
              r.patch = StringNumberBoolean(r.context.attrs)

\* C14: a call whose fetchFlags rejected has rejected with it, at once: it
\* called fetchFlags once, that call is the last thing it did, it stored no
\* handle and emitted nothing; and a call rejects for no other reason.
C14_FailurePropagates ==
    \A r \in Records :
        /\ r.failed > 0 =>
              /\ r.failed = 1
              /\ r.pc = "rejected"
              /\ Count(r.ops, "fetchFlags") = 1
              /\ r.ops[Len(r.ops)] = "fetchFlags"
              /\ Count(r.ops, "emitReady") = 0
              /\ r.assigned = 0
        /\ r.pc = "rejected" => r.failed = 1

\* The re-fetch of a patching call rejected, and the call with it.
C14_Witness ==
    /\ lastCall.kind = "onContextChange"
    /\ lastCall.branch = "patch"
    /\ lastCall.failed = 1
    /\ lastCall.pc = "rejected"
    /\ visitor.status = "FETCH_REQUIRED"

\* C15: onClose calls Flagship.close() once and leaves this._visitor as it
\* is, the object and its state: it makes no fetchFlags, updateContext or
\* setConsent call, and touches no call in flight.
C15_CloseLeavesVisitor ==
    [][closeCount' # closeCount =>
          /\ closeCount' = closeCount + 1
          /\ visitor' = visitor
          /\ calls' = calls
          /\ lastCall' = NoCall]_vars

\* The provider was closed with a handle installed, which is still there.
C15_Witness ==
    /\ closeCount = 1
    /\ visitor # NoVisitor
    /\ visitor.fetched
    /\ lastCall = NoCall
    /\ Quiet

\* The method of the wrapped logger an AdapterLogger method goes to.
GoesTo(via) ==
    CASE via \in {"emergency", "alert", "critical", "error"} -> "error"
      [] via \in {"warning", "notice"} -> "warn"
      [] via = "info" -> "info"
      [] via \in {"debug", "log"} -> "debug"

\* The level an AdapterLogger method formats its message for: its own, and
\* for log the level it is given.
FormatsAs(l) ==
    CASE l.via = "emergency" -> "EMERGENCY"
      [] l.via = "alert" -> "ALERT"
      [] l.via = "critical" -> "CRITICAL"
      [] l.via = "error" -> "ERROR"
      [] l.via = "warning" -> "WARNING"
      [] l.via = "notice" -> "NOTICE"
      [] l.via = "info" -> "INFO"
      [] l.via = "debug" -> "DEBUG"
      [] l.via = "log" -> l.level

\* C16: a call of an AdapterLogger method makes one call on the wrapped
\* logger, of error for emergency, alert, critical and error, of warn for
\* warning and notice, of info for info, of debug for debug and for log
\* whatever its level, with one text: the message and the tag it was given,
\* formatted for its level.
C16_LoggerRouting ==
    lastLog # NoLog =>
        /\ Len(lastLog.calls) = 1
        /\ lastLog.calls[1].method = GoesTo(lastLog.via)
        /\ lastLog.calls[1].text.levelName = FormatsAs(lastLog)
        /\ lastLog.calls[1].text.message = lastLog.message
        /\ lastLog.calls[1].text.tag = lastLog.tag
        /\ Len(lastLog.calls[1].text.timestamp[2]) = 2
        /\ Len(lastLog.calls[1].text.timestamp[7]) = 3

\* log was called with the level WARNING and went to debug.
C16_Witness ==
    /\ lastLog.via = "log"
    /\ lastLog.level = "WARNING"
    /\ lastLog.calls[1].method = "debug"
    /\ lastLog.calls[1].text.levelName = "WARNING"
    /\ lastLog.calls[1].text.timestamp[7] = <<0, 0, 4>>

\* C17 as stated: an onContextChange that begins with no handle creates one
\* handle from its context, fetches it once and, when the fetch has
\* resolved, has stored it as this._visitor, whether the context has a
\* targetingKey or not.
C17_Stated ==
    \A r \in Records :
        r.kind = "onContextChange" /\ ~r.hadVisitor =>
            /\ r.branch = "create"
            /\ Count(r.ops, "newVisitor") = 1
            /\ Count(r.ops, "fetchFlags") = 1
            /\ r.pc = "done" => visitor # NoVisitor /\ visitor = r.v

\* What every initialize does, whatever the handle there is: it never
\* patches, and once past initializeSDK it has made one newVisitor from its
\* context and one fetchFlags; a missing context gives newVisitor no
\* visitorId, no consent and an empty attribute bag.
InitializeCreates(r) ==
    /\ r.branch = "create"
    /\ Count(r.ops, "updateContext") = 0
    /\ Count(r.ops, "setConsent") = 0
    /\ r.pc \in {"awaitFetch", "done", "rejected"} =>
          /\ Count(r.ops, "newVisitor") = 1
          /\ Count(r.ops, "fetchFlags") = 1
          /\ r.v.visitorId \in NewVisitorIds(r.context.targetingKey)
          /\ r.v.hasConsented = r.context.hasConsented
          /\ r.v.context = toPrimitiveRecord(r.context.attrs)
          /\ r.context = NoContext =>
                /\ r.v.visitorId \in NewVisitorIds(Undef)
                /\ r.v.hasConsented = Undef
                /\ r.v.context = NoAttrs

\* C18 as stated: every initialize creates, fetches and installs a new
\* handle and never patches.
C18_Stated ==
    \A r \in Records :
        r.kind = "initialize" =>
            /\ InitializeCreates(r)
            /\ r.pc \in {"done", "rejected"} => r.assigned = 1 /\ visitor = r.v

\* C18 amended: every initialize creates and fetches a new handle and never
\* patches, also when the current handle has the identity of its context;
\* it installs the new handle when the fetch resolves, and when the fetch
\* rejects it installs nothing.
C18_InitializeReplaces ==
    \A r \in Records :
        r.kind = "initialize" =>
            /\ InitializeCreates(r)
            /\ r.pc = "done" =>
                  r.assigned = 1 /\ visitor = r.v /\ visitor.status = "FETCHED"
            /\ r.pc # "done" => r.assigned = 0

\* An initialize whose targetingKey is the identity of the current handle
\* has created another handle and awaits its fetch.
C18_Witness ==
    \E r \in InFlight :
        /\ r.kind = "initialize"
        /\ r.pc = "awaitFetch"
        /\ visitor # NoVisitor
        /\ r.context.targetingKey \in TargetingKeys
        /\ visitor.visitorId = r.context.targetingKey
        /\ r.ops = <<"newVisitor", "fetchFlags">>
        /\ r.v # visitor

\* C19: replacing calls overlap freely.  Each one in flight holds a handle of
\* its own that is not yet this._visitor, and whenever one ends with its
\* fetch resolved its handle is this._visitor, whatever calls began before
\* or after it and whatever they stored: the handle stored last stays.
C19_LastWriteWins ==
    /\ lastCall.branch = "create" /\ lastCall.pc = "done" =>
          /\ lastCall.assigned = 1
          /\ visitor = lastCall.v
    /\ \A r \in InFlight :
          r.branch = "create" /\ r.pc = "awaitFetch" =>
              /\ r.assigned = 0
              /\ ~r.v.fetched
              /\ r.v # visitor

\* Two initialize calls overlapped: the one issued second (it found the SDK
\* started) has stored its handle while the one issued first (it started the
\* SDK) still awaits the fetch of its own.
C19_Witness ==
    /\ lastCall.kind = "initialize"
    /\ lastCall.pc = "done"
    /\ Count(lastCall.ops, "start") = 0
    /\ visitor = lastCall.v
    /\ \E r \in InFlight :
          /\ r.kind = "initialize"
          /\ Count(r.ops, "start") = 1
          /\ r.pc = "awaitFetch"
          /\ r.v.visitorId # visitor.visitorId

\* C20: while a call that creates a handle runs, no step but the one in
\* which its fetch resolves changes this._visitor, the handle or the absence
\* of one; so when the fetch rejects, this._visitor is what it was when the
\* call began, the created handle was never stored, and nothing was emitted.
C20_FailureKeepsHandle ==
    [][/\ (\E r \in InFlight \cup InFlight' : r.branch = "create")
             /\ lastCall'.pc # "done" => visitor' = visitor
       /\ lastCall'.branch = "create" /\ lastCall'.failed > 0 =>
             /\ lastCall'.pc = "rejected"
             /\ lastCall'.assigned = 0
             /\ Count(lastCall'.ops, "emitReady") = 0
             /\ ~lastCall'.v.fetched
             /\ visitor' # lastCall'.v]_vars

\* The fetch of an initialize rejected, and the handle installed before is
\* still the current one.
C20_Witness ==
    /\ lastCall.kind = "initialize"
    /\ lastCall.pc = "rejected"
    /\ lastCall.failed = 1
    /\ visitor # NoVisitor
    /\ visitor.status = "FETCHED"
    /\ visitor # lastCall.v

\* A reconciliation call that has just ended and resolved.
Resolved(r) == r.kind \in {"initialize", "onContextChange"} /\ r.pc = "done"

\* The backend gave the handle a call created the identity it was created
\* with (a call that created none has nothing to assume).
IdentityAsGiven(r) ==
    r.branch = "create" => r.v.visitorId = r.context.targetingKey

\* C21: when the caller awaits each call before the next, then once an
\* initialize or an onContextChange has resolved and there is a handle (an
\* initialize has resolved before), the handle's identity is the targetingKey
\* of that call's context and its fetch status is not FETCH_REQUIRED; this
\* for a backend that gives a handle the identity it was created with.
C21_SerializedPostcondition ==
    (Resolved(lastCall) /\ visitor # NoVisitor /\ IdentityAsGiven(lastCall)) =>
        /\ visitor.visitorId = lastCall.context.targetingKey
        /\ visitor.status # "FETCH_REQUIRED"

\* An onContextChange has resolved on the patch branch after a re-fetch of
\* the handle an earlier call installed, and the handle is fetched and has
\* the identity of the context.
C21_Witness ==
    /\ Resolved(lastCall)
    /\ lastCall.kind = "onContextChange"
    /\ lastCall.branch = "patch"
    /\ lastCall.hadVisitor
    /\ Count(lastCall.ops, "fetchFlags") = 1
    /\ visitor.visitorId = lastCall.context.targetingKey
    /\ visitor.visitorId \in TargetingKeys
    /\ visitor.status = "FETCHED"

\* The calls that began in this step.
Begun(rs) == {r \in rs : r.kind = "onContextChange" /\ r.steps = 1}

\* C22 as stated: an onContextChange given the context of the onContextChange
\* that resolved just before it creates no handle, calls neither setConsent
\* nor fetchFlags, and its updateContext leaves the handle as it was (the
\* backend marks nothing for a patch that changes nothing).
C22_Stated ==
    [][(Resolved(lastCall) /\ lastCall.kind = "onContextChange" /\ Quiet) =>
          \A r \in Begun(Records') :
              r.context = lastCall.context =>
                  /\ r.branch = "patch"
                  /\ Count(r.ops, "newVisitor") = 0
                  /\ Count(r.ops, "setConsent") = 0
                  /\ Count(r.ops, "fetchFlags") = 0
                  /\ visitor' = visitor]_vars

\* The calls that have called Flagship.start.
Started == {r \in Records : Count(r.ops, "start") = 1}

\* The fields of the configuration other than the two the provider sets are
\* in the options as the caller gave them.
PassedThrough(options, config) ==
    \A k \in OptionNames \ {"fetchNow", "logManager"} : options[k] = config[k]

\* C23 as stated: every call of Flagship.start is given the configured envId
\* and apiKey, and options with fetchNow false, a log manager, and the other
\* fields of the configuration as they are.
C23_Stated ==
    \A r \in Started :
        /\ r.start.envId = provider.envId
        /\ r.start.apiKey = provider.apiKey
        /\ r.start.options["fetchNow"] = VFalse
        /\ r.start.options["logManager"] \notin {Absent, VUndefined}
        /\ PassedThrough(r.start.options, provider.config)

\* C23: every call of Flagship.start is given the configured envId and
\* apiKey, and options with fetchNow false whatever the configuration says,
\* logManager the adapter around the logger the provider was given, or
\* undefined when it was given none, whatever the configuration says, and the
\* other fields of the configuration as they are.
C23_StartOptions ==
    \A r \in Started :
        /\ r.start.envId = provider.envId
        /\ r.start.apiKey = provider.apiKey
        /\ r.start.options["fetchNow"] = VFalse
        /\ r.start.options["logManager"] = provider.logger
        /\ provider.logger \in {VUndefined} \cup {AdapterLogger(l) : l \in Loggers}
        /\ PassedThrough(r.start.options, provider.config)

\* Flagship.start was called by a provider whose configuration asks for
\* fetchNow, has a log manager of its own and a timeout, and that was given
\* a logger.
C23_Witness ==
    \E r \in Started :
        /\ provider.config["fetchNow"] = VTrue
        /\ provider.config["logManager"] = VLogManager
        /\ provider.config["timeout"] = V42
        /\ r.start.options["fetchNow"] = VFalse
        /\ r.start.options["logManager"] = AdapterLogger("mockLogger")
        /\ r.start.options["timeout"] = V42

\* C24: when the fetchFlags of the patch branch rejects, onContextChange
\* rejects, and this._visitor is the handle it was, neither replaced nor
\* cleared, with the consent the call set (or the one it had, when the call
\* set none) and with the attributes of the patch.
C24_PatchKept ==
    (lastCall.kind = "onContextChange" /\ lastCall.branch = "patch" /\ lastCall.failed = 1) =>
        /\ lastCall.pc = "rejected"
        /\ visitor # NoVisitor
        /\ visitor.visitorId = lastCall.prevId
        /\ Count(lastCall.ops, "newVisitor") = 0
        /\ lastCall.assigned = 0
        /\ visitor.hasConsented =
               IF Toggles(lastCall) THEN lastCall.context.hasConsented
               ELSE lastCall.prevConsent
        /\ \A k \in AttrNames :
               lastCall.patch[k] # Absent => visitor.context[k] = lastCall.patch[k]

\* An onContextChange that set the consent and patched an attribute has
\* rejected with its fetch, and the handle has the new consent and the new
\* attribute and is still to be fetched.
C24_Witness ==
    /\ lastCall.kind = "onContextChange"
    /\ lastCall.branch = "patch"
    /\ lastCall.pc = "rejected"
    /\ Toggles(lastCall)
    /\ lastCall.prevConsent # lastCall.context.hasConsented
    /\ visitor.hasConsented = lastCall.context.hasConsented
    /\ lastCall.patch["age"] = V31
    /\ visitor.context["age"] = V31
    /\ visitor.status = "FETCH_REQUIRED"

\* C25: no onContextChange emits Ready, on the identity branch or on the
\* patch branch; a call has emitted Ready once when it is an initialize that
\* has resolved, and not at all otherwise, so that the Ready events are as
\* many as the initialize calls that resolved.
C25_ReadyOnlyFromInitialize ==
    \A r \in Records :
        Count(r.ops, "emitReady") =
            IF r.kind = "initialize" /\ r.pc = "done" THEN 1 ELSE 0

\* An onContextChange has created a handle, made it this._visitor and
\* resolved, and has emitted nothing.
C25_Witness ==
    /\ lastCall.kind = "onContextChange"
    /\ lastCall.branch = "create"
    /\ lastCall.pc = "done"
    /\ lastCall.assigned = 1
    /\ visitor = lastCall.v
    /\ Count(lastCall.ops, "emitReady") = 0

\* C26: a resolution only reads: the step that makes it leaves this._visitor
\* as it is (not replaced, not cleared, not patched, no consent set, no fetch
\* begun), begins and ends no call (so no backend call is made and nothing
\* is emitted), leaves the SDK's status and the start and close counts, and
\* answers in that one step from the visitor there is at the call, whatever
\* calls are in flight.
C26_ResolveReadsOnly ==
    [][lastResolve'.active =>
          /\ visitor' = visitor
          /\ calls' = calls
          /\ lastCall' = NoCall
          /\ sdkStatus' = sdkStatus
          /\ startCount' = startCount
          /\ closeCount' = closeCount
          /\ provider' = provider
          /\ lastResolve'.visitor = visitor]_vars

\* A resolution has answered while an onContextChange awaits the re-fetch of
\* the visitor, from that visitor, its fetch still in flight.
C26_Witness ==
    /\ lastResolve.active
    /\ lastResolve.awaited
    /\ lastResolve.visitor = visitor
    /\ visitor # NoVisitor
    /\ visitor.status # "FETCHED"
    /\ \E r \in InFlight : r.pc = "awaitFetch" /\ r.branch = "patch" /\ ~r.orphan

====
